---- MODULE Spec2Model ----
(***************************************************************************)
(* A model of go-linoise's History store (history.go) and of its Question  *)
(* prompter (question.go).                                                 *)
(*                                                                         *)
(* Strings are sequences of one-character strings, so that prefix tests,   *)
(* trimming, splitting at newlines and concatenation are computed on the   *)
(* characters, as the code computes them.                                  *)
(***************************************************************************)
EXTENDS Integers, Sequences, FiniteSets, TLC

\* ------------------------------------------------------------------ bounds

\* The largest ring capacity that is modelled.
MaxCap == 2

\* Load's loop is left once h.Len has reached this value (the loop itself
\* has no bound when the read error is not EOF).
MaxLen == 4

\* The lines one Read* call asks of the LineReader, at most.
MaxReads == 3

\* How many times a caller's list of options is highlighted, at most.
MaxHighlights == 2

\* ----------------------------------------------------------------- strings

NL == "\n"

\* The lines a caller may hand to Add: plain ones, one that starts with a
\* space, one that ends with a space, and the empty line.
Lines == { <<"a">>, <<"b">>, <<" ", "a">>, <<"a", " ">>, <<>> }

\* The interface value nil of an unused ring slot (no line is equal to it).
Nil == <<"<nil>">>

Min(a, b) == IF a < b THEN a ELSE b

\* The last n elements of s (all of s when it is shorter).
LastN(n, s) == IF Len(s) <= n THEN s ELSE SubSeq(s, Len(s) - n + 1, Len(s))

\* unicode.IsSpace, on the characters of the model.
IsSpace(c) == c \in {" ", "\t", "\n", "\r"}

\* strings.HasPrefix(line, " ")
HasSpacePrefix(line) == Len(line) > 0 /\ line[1] = " "

RECURSIVE TrimLeft(_)
TrimLeft(s) == IF s # <<>> /\ IsSpace(s[1]) THEN TrimLeft(Tail(s)) ELSE s

RECURSIVE TrimRightSpace(_)
TrimRightSpace(s) ==
    IF s # <<>> /\ IsSpace(s[Len(s)])
    THEN TrimRightSpace(SubSeq(s, 1, Len(s) - 1))
    ELSE s

\* strings.TrimSpace
TrimSpace(s) == TrimRightSpace(TrimLeft(s))

\* strings.TrimRight(line, "\n")
RECURSIVE TrimRightNL(_)
TrimRightNL(s) ==
    IF s # <<>> /\ s[Len(s)] = NL
    THEN TrimRightNL(SubSeq(s, 1, Len(s) - 1))
    ELSE s

\* ------------------------------------------------------------- environment

\* The sizes the application may pass to NewHistorySize.
CapValues == (0 - 1)..MaxCap

\* The values the application may give the package variable HistoryCap: a
\* negative one, zero and the smallest capacity.
HistoryCapValues == (0 - 1)..1

HistFile == "go_linoise"

\* What the backing file may hold before the session: nothing (the file does
\* not exist), one record, two records and an unterminated third.
InitFiles ==
    { <<>>,
      <<"a", NL>>,
      <<"a", NL, "b", NL, "b">> }

VARIABLES
    HistoryCap,   \* the package variable HistoryCap
    disk,         \* the backing file: [exists, data]
    h,            \* the history object (NoHist before construction)
    pc,           \* "idle", "Load" (inside Load's loop) or "panic"
    bufin,        \* Load's bufio.Reader: the bytes read and not yet consumed
    call,         \* the call made last: [op, arg, err]
    old,          \* the history object of the session before (NoHist: none)
    QuestionTrueString,   \* the package variable QuestionTrueString
    QuestionFalseString,  \* the package variable QuestionFalseString
    ExtraBoolString,      \* the package variable ExtraBoolString
    q,            \* the Question (NoQuestion before NewQuestion)
    qpc,          \* "idle", "reading" (inside a Read* loop), "returned", "panic"
    qcall,        \* the Read* call in progress or made last
    opts,         \* the caller's slice of options of the last ReadChoice*
    lineIn,       \* what line.Read() returned last: [line, err]
    qret,         \* what the Read* call returned: [val, err]
    output,       \* the lines written to output since the call began
    nread         \* the lines asked of the LineReader since the call began

hvars == <<HistoryCap, disk, h, pc, bufin, call, old>>

qvars ==
    <<QuestionTrueString, QuestionFalseString, ExtraBoolString, q, qpc,
      qcall, opts, lineIn, qret, output, nread>>

vars == <<hvars, qvars>>

\* ---------------------------------------------------------------- the ring

\* ring.New(n): n slots holding nil; the nil ring when n <= 0.
RingNew(n) ==
    IF n <= 0
    THEN [slots |-> <<>>, cur |-> 0]
    ELSE [slots |-> [i \in 1..n |-> Nil], cur |-> 1]

RingIsNil(r) == r.cur = 0

\* r.Next(): the slot after the cursor, circularly.
RingNext(r) == (r.cur % Len(r.slots)) + 1

\* h.rng.Value = line; h.rng = h.rng.Next()
RingPut(r, line) ==
    [slots |-> [r.slots EXCEPT ![r.cur] = line], cur |-> RingNext(r)]

\* r.Iter(): the values from the cursor once around the ring.
RingIter(r) ==
    IF RingIsNil(r)
    THEN <<>>
    ELSE [i \in 1..Len(r.slots) |->
              r.slots[((r.cur - 1 + i - 1) % Len(r.slots)) + 1]]

RECURSIVE NonNil(_)
NonNil(s) ==
    IF s = <<>> THEN <<>>
    ELSE IF Head(s) = Nil THEN NonNil(Tail(s))
    ELSE <<Head(s)>> \o NonNil(Tail(s))

\* The occupied slots in the order Save visits them (the `v != nil` test).
Chrono(r) == NonNil(RingIter(r))

\* ------------------------------------------------------------- the history

NilFile == [valid |-> FALSE, open |-> FALSE, pos |-> 0, closes |-> 0]

NoHist ==
    [Cap |-> 0, Len |-> 0, filename |-> "", file |-> NilFile,
     rng |-> RingNew(0)]

Constructed(x) == x.file.valid

NoCall == [op |-> "none", arg |-> <<>>, err |-> "nil"]

HistInit ==
    /\ HistoryCap \in HistoryCapValues
    /\ \E d \in InitFiles :
          disk = [exists |-> d # <<>>, data |-> d]
    /\ h = NoHist
    /\ pc = "idle"
    /\ bufin = <<>>
    /\ call = NoCall
    /\ old = NoHist

\* The object _baseHistory builds around the handle it has opened.
NewObject(size) ==
    [Cap |-> size, Len |-> 0, filename |-> HistFile,
     file |-> [valid |-> TRUE, open |-> TRUE, pos |-> 0, closes |-> 0],
     rng |-> RingNew(size)]

\* _baseHistory: open the file (creating it), then build the object.
BaseHistory(op, size, openOk) ==
    IF openOk
    THEN /\ disk' = [exists |-> TRUE, data |-> disk.data]
         /\ h' = NewObject(size)
         /\ call' = [op |-> op, arg |-> <<>>, err |-> "nil"]
         /\ UNCHANGED <<HistoryCap, pc, bufin, old, qvars>>
    ELSE /\ call' = [op |-> op, arg |-> <<>>, err |-> "OpenError"]
         /\ UNCHANGED <<HistoryCap, disk, h, pc, bufin, old, qvars>>

NewHistory ==
    /\ pc = "idle"
    /\ ~Constructed(h)
    /\ \E openOk \in BOOLEAN : BaseHistory("NewHistory", HistoryCap, openOk)

NewHistorySize ==
    /\ pc = "idle"
    /\ ~Constructed(h)
    /\ \E size \in CapValues, openOk \in BOOLEAN :
          IF size <= 0
          THEN /\ call' = [op |-> "NewHistorySize", arg |-> <<>>,
                           err |-> "HistSizeError"]
               /\ UNCHANGED <<HistoryCap, disk, h, pc, bufin, old, qvars>>
          ELSE BaseHistory("NewHistorySize", size, openOk)

\* Add's insertion without the test `h.Len < h.Cap`.
AddLineMut(x, line) ==
    [x EXCEPT !.rng = RingPut(x.rng, line), !.Len = x.Len + 1]
\* The insertion of Add: store at the cursor, advance, count up to Cap.
AddLine(x, line) ==
    [x EXCEPT !.rng = RingPut(x.rng, line),
              !.Len = IF x.Len < x.Cap THEN x.Len + 1 ELSE x.Len]

Add ==
    /\ pc = "idle"
    /\ Constructed(h)
    /\ \E line \in Lines :
          IF RingIsNil(h.rng)
          THEN /\ pc' = "panic"
               /\ call' = [op |-> "Add", arg |-> line, err |-> "nil-deref"]
               /\ UNCHANGED <<HistoryCap, disk, h, bufin, old, qvars>>
          ELSE /\ h' = AddLine(h, line)
               /\ call' = [op |-> "Add", arg |-> line, err |-> "nil"]
               /\ UNCHANGED <<HistoryCap, disk, pc, bufin, old, qvars>>

\* -------------------------------------------------------------------- Load

RECURSIVE IndexNL(_, _)
\* The index of the first newline of s at or after i, 0 when there is none.
IndexNL(s, i) ==
    IF i > Len(s) THEN 0
    ELSE IF s[i] = NL THEN i
    ELSE IndexNL(s, i + 1)

\* bufin.ReadString('\n') on the handle f: the bytes up to and including the
\* first newline; when there is none, what is left and the error of the read
\* (os.EOF at the end of the file, EBADF on a closed handle).  The files of
\* the model are shorter than bufio's buffer, so the first fill reads the
\* file from the handle's offset to its end.
BufioReadString(buf, f, data) ==
    LET avail == IF f.open THEN buf \o SubSeq(data, f.pos + 1, Len(data))
                 ELSE buf
        pos   == IF f.open THEN Len(data) ELSE f.pos
        k     == IndexNL(avail, 1)
    IN  IF k > 0
        THEN [line |-> SubSeq(avail, 1, k), err |-> "nil",
              buf |-> SubSeq(avail, k + 1, Len(avail)), pos |-> pos]
        ELSE [line |-> avail, err |-> IF f.open THEN "EOF" ELSE "EBADF",
              buf |-> <<>>, pos |-> pos]

\* The insertion of Load's loop body without `h.rng = h.rng.Next()`.
LoadLineMut(x, line) ==
    [x EXCEPT !.rng.slots[x.rng.cur] = line, !.Len = x.Len + 1]
\* The insertion of Load's loop body: store at the cursor, advance, count.
LoadLine(x, line) ==
    [x EXCEPT !.rng = RingPut(x.rng, line), !.Len = x.Len + 1]

\* bufin := bufio.NewReader(h.file)
LoadBegin ==
    /\ pc = "idle"
    /\ Constructed(h)
    /\ pc' = "Load"
    /\ bufin' = <<>>
    /\ call' = [op |-> "LoadBegin", arg |-> <<>>, err |-> "nil"]
    /\ UNCHANGED <<HistoryCap, disk, h, old, qvars>>

\* One iteration of Load's loop.  Only os.EOF leaves the loop; after any
\* other error the line read so far is inserted and the loop goes on.
LoadIter ==
    /\ pc = "Load"
    /\ LET r  == BufioReadString(bufin, h.file, disk.data)
           hf == [h EXCEPT !.file.pos = r.pos]
       IN  IF r.err = "EOF"
           THEN /\ pc' = "idle"
                /\ h' = hf
                /\ bufin' = r.buf
                /\ call' = [op |-> "Load", arg |-> r.line, err |-> r.err]
                /\ UNCHANGED <<HistoryCap, disk, old, qvars>>
           ELSE IF RingIsNil(h.rng)
           THEN /\ pc' = "panic"
                /\ h' = hf
                /\ bufin' = r.buf
                /\ call' = [op |-> "Load", arg |-> r.line,
                            err |-> "nil-deref"]
                /\ UNCHANGED <<HistoryCap, disk, old, qvars>>
           ELSE /\ r.err = "nil" \/ h.Len < MaxLen
                /\ h' = LoadLine(hf, TrimRightNL(r.line))
                /\ bufin' = r.buf
                /\ call' = [op |-> "Load.ReadString", arg |-> r.line,
                            err |-> r.err]
                /\ UNCHANGED <<HistoryCap, disk, pc, old, qvars>>

\* -------------------------------------------------------------------- Save

\* The test of Save's loop body: is the entry written?
Persisted(line) == ~HasSpacePrefix(line) /\ TrimSpace(line) # <<>>

\* What Save hands to WriteString for an entry: line + "\n", after
\* `line = strings.TrimSpace(line)`.
SaveRecord(line) == TrimSpace(line) \o <<NL>>

RECURSIVE SaveLoop(_, _, _)
\* Save's loop over the entries es, the k-th WriteString failing (k = 0:
\* none fails): the bytes buffered and whether a write failed (which ends
\* the loop).
SaveLoop(es, k, out) ==
    IF es = <<>> THEN [buf |-> out, failed |-> FALSE]
    ELSE IF ~Persisted(Head(es)) THEN SaveLoop(Tail(es), k, out)
    ELSE IF k = 1 THEN [buf |-> out, failed |-> TRUE]
    ELSE SaveLoop(Tail(es), IF k = 0 THEN 0 ELSE k - 1,
                  out \o SaveRecord(Head(es)))

\* Writing buf into the file at offset pos: the bytes it covers are
\* replaced, the file grows when buf reaches past its end, and what lies
\* beyond the written bytes stays (the file is opened without O_TRUNC and
\* is not truncated).
WriteAt(data, pos, buf) ==
    SubSeq(data, 1, pos) \o buf
        \o SubSeq(data, pos + Len(buf) + 1, Len(data))

\* h.closeFile()
CloseFile(f) == [f EXCEPT !.open = FALSE, !.closes = f.closes + 1]

\* Save.  seekOk: whether Seek(0, 0) succeeds on an open handle; failAt:
\* which WriteString fails (0: none); flushOk: whether Flush's write
\* succeeds.  A failed write transfers no byte.
Save(seekOk, failAt, flushOk) ==
    /\ pc = "idle"
    /\ Constructed(h)
    /\ IF ~h.file.open
       THEN \* Seek on the closed handle fails: return err.
            /\ call' = [op |-> "Save", arg |-> <<>>, err |-> "EBADF"]
            /\ UNCHANGED <<HistoryCap, disk, h, pc, bufin, old, qvars>>
       ELSE IF ~seekOk
       THEN /\ call' = [op |-> "Save", arg |-> <<>>, err |-> "ESPIPE"]
            /\ UNCHANGED <<HistoryCap, disk, h, pc, bufin, old, qvars>>
       ELSE LET w  == SaveLoop(Chrono(h.rng), failAt, <<>>)
                ok == ~w.failed /\ flushOk
            IN  /\ disk' = IF ok
                           THEN [disk EXCEPT !.data = WriteAt(@, 0, w.buf)]
                           ELSE disk
                /\ h' = [h EXCEPT !.file =
                            CloseFile([@ EXCEPT !.pos =
                                          IF ok THEN Len(w.buf) ELSE 0])]
                /\ call' = [op |-> "Save", arg |-> w.buf,
                            err |-> IF ok THEN "nil" ELSE "EIO"]
                /\ UNCHANGED <<HistoryCap, pc, bufin, old, qvars>>

SaveCall ==
    \E seekOk \in BOOLEAN, failAt \in 0..MaxCap, flushOk \in BOOLEAN :
        Save(seekOk, failAt, flushOk)


\* ------------------------------------------------------------ the Question

\* The byte 033 that starts an ANSI code.
ESC == "ESC"

setOff == <<ESC, "[", "0", "m">>

setBold == <<ESC, "[", "1", "m">>

QuestionPrefix == <<" ", "+", " ">>

QuestionErrPrefix == <<" ", " ">>

UpperChars ==
    <<"A", "B", "C", "D", "E", "F", "G", "H", "I", "J", "K", "L", "M",
      "N", "O", "P", "Q", "R", "S", "T", "U", "V", "W", "X", "Y", "Z">>

LowerChars ==
    <<"a", "b", "c", "d", "e", "f", "g", "h", "i", "j", "k", "l", "m",
      "n", "o", "p", "q", "r", "s", "t", "u", "v", "w", "x", "y", "z">>

\* strings.ToLower
ToLower(s) ==
    [i \in 1..Len(s) |->
        IF \E k \in 1..Len(UpperChars) : UpperChars[k] = s[i]
        THEN LowerChars[CHOOSE k \in 1..Len(UpperChars) : UpperChars[k] = s[i]]
        ELSE s[i]]

DigitChars == <<"0", "1", "2", "3", "4", "5", "6", "7", "8", "9">>

IsDigit(c) == \E k \in 1..Len(DigitChars) : DigitChars[k] = c

DigitVal(c) == (CHOOSE k \in 1..Len(DigitChars) : DigitChars[k] = c) - 1

AllDigits(s) == \A i \in 1..Len(s) : IsDigit(s[i])

RECURSIVE DecValue(_, _)
\* The number the decimal digits s denote, after the digits of acc.
DecValue(s, acc) ==
    IF s = <<>> THEN acc
    ELSE DecValue(Tail(s), acc * Len(DigitChars) + DigitVal(Head(s)))

IsSign(c) == c \in {"+", "-"}

Unsigned(s) == IF s # <<>> /\ IsSign(s[1]) THEN Tail(s) ELSE s

SignOf(s) == IF s # <<>> /\ s[1] = "-" THEN 0 - 1 ELSE 1

\* strconv.Atoi: an optional sign and one or more decimal digits.
Atoi(s) ==
    LET body == Unsigned(s)
    IN  IF body # <<>> /\ AllDigits(body)
        THEN [ok |-> TRUE, n |-> SignOf(s) * DecValue(body, 0)]
        ELSE [ok |-> FALSE, n |-> 0]

RECURSIVE IndexDot(_, _)
IndexDot(s, i) ==
    IF i > Len(s) THEN 0
    ELSE IF s[i] = "." THEN i
    ELSE IndexDot(s, i + 1)

RECURSIVE StripZeros(_)
StripZeros(s) ==
    IF s # <<>> /\ s[Len(s)] = "0"
    THEN StripZeros(SubSeq(s, 1, Len(s) - 1))
    ELSE s

\* strconv.ParseFloat(s, 64) on the decimal forms without exponent: an
\* optional sign, digits, an optional point and digits, one digit at least.
\* The value is m * 10^e.
ParseFloat(s) ==
    LET body == Unsigned(s)
        k    == IndexDot(body, 1)
        ip   == IF k = 0 THEN body ELSE SubSeq(body, 1, k - 1)
        fp   == IF k = 0 THEN <<>> ELSE SubSeq(body, k + 1, Len(body))
        fz   == StripZeros(fp)
    IN  IF Len(ip) + Len(fp) > 0 /\ AllDigits(ip) /\ AllDigits(fp)
        THEN [ok |-> TRUE, m |-> SignOf(s) * DecValue(ip \o fz, 0),
              e |-> 0 - Len(fz)]
        ELSE [ok |-> FALSE, m |-> 0, e |-> 0]

RECURSIVE NatDigits(_)
NatDigits(n) ==
    IF n < Len(DigitChars) THEN <<DigitChars[n + 1]>>
    ELSE NatDigits(n \div Len(DigitChars))
            \o <<DigitChars[(n % Len(DigitChars)) + 1]>>

\* strconv.Itoa
Itoa(n) == IF n < 0 THEN <<"-">> \o NatDigits(0 - n) ELSE NatDigits(n)

RECURSIVE PadZeros(_, _)
PadZeros(s, n) == IF Len(s) >= n THEN s ELSE PadZeros(<<"0">> \o s, n)

\* strconv.FormatFloat(f, 'g', -1, 64) of m * 10^e (e <= 0, m without
\* trailing zeros when e < 0): the shortest decimal form.
FormatFloat(m, e) ==
    IF e = 0 THEN Itoa(m)
    ELSE LET ds == PadZeros(NatDigits(IF m < 0 THEN 0 - m ELSE m), 1 - e)
             ni == Len(ds) + e
         IN  (IF m < 0 THEN <<"-">> ELSE <<>>)
                \o SubSeq(ds, 1, ni) \o <<".">> \o SubSeq(ds, ni + 1, Len(ds))

\* The error of strconv.ParseBool for a string that is none of its literals.
ErrSyntax == "strconv.ParseBool: invalid syntax"

\* strconv.ParseBool
ParseBool(s) ==
    IF s \in { <<"1">>, <<"t">>, <<"T">>, <<"t", "r", "u", "e">>,
               <<"T", "R", "U", "E">>, <<"T", "r", "u", "e">> }
    THEN [ok |-> TRUE, v |-> TRUE, err |-> "nil"]
    ELSE IF s \in { <<"0">>, <<"f">>, <<"F">>, <<"f", "a", "l", "s", "e">>,
                    <<"F", "A", "L", "S", "E">>, <<"F", "a", "l", "s", "e">> }
    THEN [ok |-> TRUE, v |-> FALSE, err |-> "nil"]
    ELSE [ok |-> FALSE, v |-> FALSE, err |-> ErrSyntax]

\* atob with ExtraBoolString looked up before anything else.
atobMut(s, extra) ==
    IF s \in DOMAIN extra
    THEN [ok |-> TRUE, v |-> extra[s], err |-> "nil"]
    ELSE IF ParseBool(s).ok THEN ParseBool(s)
    ELSE IF s \in { <<"y">>, <<"Y">>, <<"y", "e", "s">>, <<"Y", "E", "S">>,
                    <<"Y", "e", "s">> }
    THEN [ok |-> TRUE, v |-> TRUE, err |-> "nil"]
    ELSE IF s \in { <<"n">>, <<"N">>, <<"n", "o">>, <<"N", "O">>,
                    <<"N", "o">> }
    THEN [ok |-> TRUE, v |-> FALSE, err |-> "nil"]
    ELSE [ok |-> FALSE, v |-> FALSE, err |-> ParseBool(s).err]
\* atob: strconv.ParseBool, then the y/yes/n/no forms, then ExtraBoolString;
\* when none knows the string, the error of strconv.ParseBool.
atob(s, extra) ==
    IF ParseBool(s).ok THEN ParseBool(s)
    ELSE IF s \in { <<"y">>, <<"Y">>, <<"y", "e", "s">>, <<"Y", "E", "S">>,
                    <<"Y", "e", "s">> }
    THEN [ok |-> TRUE, v |-> TRUE, err |-> "nil"]
    ELSE IF s \in { <<"n">>, <<"N">>, <<"n", "o">>, <<"N", "O">>,
                    <<"N", "o">> }
    THEN [ok |-> TRUE, v |-> FALSE, err |-> "nil"]
    ELSE IF s \in DOMAIN extra
    THEN [ok |-> TRUE, v |-> extra[s], err |-> "nil"]
    ELSE [ok |-> FALSE, v |-> FALSE, err |-> ParseBool(s).err]

\* The configurations of the package variables QuestionTrueString,
\* QuestionFalseString and ExtraBoolString that are modelled: the default,
\* upper-case literals, literals of another language known through the
\* table, a literal that is no boolean on either side, and a table whose
\* entries disagree with strconv.ParseBool ("0") and with the y/n forms
\* ("y") and know one more word ("x").
NoExtra == [s \in {} |-> TRUE]

ExtraSi == [s \in { <<"S", "i">> } |-> TRUE]

ExtraClash ==
    [s \in { <<"0">>, <<"y">>, <<"x">> } |-> s # <<"y">>]

Configs ==
    { [t |-> <<"y">>, f |-> <<"n">>, extra |-> NoExtra],
      [t |-> <<"Y", "E", "S">>, f |-> <<"N", "o">>, extra |-> NoExtra],
      [t |-> <<"S", "i">>, f |-> <<"N", "o">>, extra |-> ExtraSi],
      [t |-> <<"y">>, f |-> <<"n">>, extra |-> ExtraClash],
      [t |-> <<"x">>, f |-> <<"n">>, extra |-> NoExtra],
      [t |-> <<"y">>, f |-> <<"x">>, extra |-> NoExtra] }

\* hasDefault
DEFAULT_NO == "NO"

DEFAULT_SIMPLE == "SIMPLE"

DEFAULT_MULTIPLE == "MULTIPLE"

\* An answer, whatever its type: a string s, an integer n (e = 0), a float
\* n * 10^e, a boolean b.  ZeroVal holds the zero value of every type.
ZeroVal == [s |-> <<>>, n |-> 0, e |-> 0, b |-> FALSE]

StrVal(s) == [ZeroVal EXCEPT !.s = s]

IntVal(n) == [ZeroVal EXCEPT !.n = n]

FloatVal(m, e) == [ZeroVal EXCEPT !.n = m, !.e = e]

BoolVal(b) == [ZeroVal EXCEPT !.b = b]

\* strings.HasSuffix(prompt, "?")
EndsWithQuestionMark(s) == s # <<>> /\ s[Len(s)] = "?"

\* getLine: the Line with the rendered prompt and the length of the ANSI
\* codes in it.
getLine(prompt, defaultAnswer, def) ==
    LET p1 == QuestionPrefix \o prompt
        p2 == IF def = DEFAULT_SIMPLE
              THEN p1 \o <<" ", "[">> \o setBold \o defaultAnswer \o setOff
                      \o <<"]">>
              ELSE IF def = DEFAULT_MULTIPLE
              THEN p1 \o <<" ", "[">> \o defaultAnswer \o <<"]">>
              ELSE p1
    IN  [prompt |-> IF EndsWithQuestionMark(p2) THEN p2 \o <<" ">>
                    ELSE p2 \o <<":", " ">>,
         ansiLen |-> IF def # DEFAULT_NO THEN Len(setBold) + Len(setOff)
                     ELSE 0]

RECURSIVE Join(_, _)
\* strings.Join(a, sep)
Join(a, sep) ==
    IF a = <<>> THEN <<>>
    ELSE IF Len(a) = 1 THEN a[1]
    ELSE a[1] \o sep \o Join(Tail(a), sep)

\* The texts of the validation messages (each one token of the model).
MsgString == "the value has to be a string"

MsgInteger == "the value has to be an integer"

MsgFloat == "the value has to be a float"

MsgBool == "the value does not represent a boolean"

\* %q of a string without characters to escape.
Quote(s) == <<"\"">> \o s \o <<"\"">>

\* fmt.Fprintf(output, "%s%v: <text>\r\n", QuestionErrPrefix, v)
ErrLine(v, text) == QuestionErrPrefix \o v \o <<":", " ", text, "\r", "\n">>

\* What one pass of a Read* loop decides once line.Read() has returned:
\* return (val, err), or go round again after writing msg (<<>>: nothing).
Return(val, err) == [done |-> TRUE, val |-> val, err |-> err, msg |-> <<>>]

Retry(msg) == [done |-> FALSE, val |-> ZeroVal, err |-> "nil", msg |-> msg]

\* Question.Read
HandleRead(c, in) ==
    IF in.err # "nil" THEN Return(ZeroVal, in.err)
    ELSE IF in.line # <<>> THEN Return(StrVal(in.line), "nil")
    ELSE Retry(<<>>)

\* Question._baseReadString's loop, with the default's value tested in
\* place of `def != _DEFAULT_NO`.
HandleStringMut(c, in) ==
    IF in.err # "nil" THEN Return(ZeroVal, in.err)
    ELSE IF in.line # <<>>
    THEN IF Atoi(in.line).ok \/ ParseFloat(in.line).ok
         THEN Retry(ErrLine(in.line, MsgString))
         ELSE Return(StrVal(in.line), "nil")
    ELSE IF c.dflt.s # <<>> THEN Return(c.dflt, "nil")
    ELSE Retry(<<>>)
\* Question._baseReadString
HandleString(c, in) ==
    IF in.err # "nil" THEN Return(ZeroVal, in.err)
    ELSE IF in.line # <<>>
    THEN IF Atoi(in.line).ok \/ ParseFloat(in.line).ok
         THEN Retry(ErrLine(in.line, MsgString))
         ELSE Return(StrVal(in.line), "nil")
    ELSE IF c.def # DEFAULT_NO THEN Return(c.dflt, "nil")
    ELSE Retry(<<>>)

\* Question._baseReadInt's loop, with the error of strconv.Atoi returned to
\* the caller instead of the message and another read.
HandleIntMut(c, in) ==
    IF in.err # "nil" THEN Return(ZeroVal, in.err)
    ELSE IF in.line = <<>> /\ c.def # DEFAULT_NO THEN Return(c.dflt, "nil")
    ELSE IF ~Atoi(in.line).ok
    THEN Return(ZeroVal, "strconv.Atoi: invalid syntax")
    ELSE Return(IntVal(Atoi(in.line).n), "nil")
\* Question._baseReadInt
HandleInt(c, in) ==
    IF in.err # "nil" THEN Return(ZeroVal, in.err)
    ELSE IF in.line = <<>> /\ c.def # DEFAULT_NO THEN Return(c.dflt, "nil")
    ELSE IF ~Atoi(in.line).ok
    THEN Retry(ErrLine(Quote(in.line), MsgInteger))
    ELSE Return(IntVal(Atoi(in.line).n), "nil")

\* Question._baseReadFloat's loop, reading again without the message.
HandleFloatMut(c, in) ==
    IF in.err # "nil" THEN Return(ZeroVal, in.err)
    ELSE IF in.line = <<>> /\ c.def # DEFAULT_NO THEN Return(c.dflt, "nil")
    ELSE IF ~ParseFloat(in.line).ok
    THEN Retry(<<>>)
    ELSE Return(FloatVal(ParseFloat(in.line).m, ParseFloat(in.line).e),
                "nil")
\* Question._baseReadFloat
HandleFloat(c, in) ==
    IF in.err # "nil" THEN Return(ZeroVal, in.err)
    ELSE IF in.line = <<>> /\ c.def # DEFAULT_NO THEN Return(c.dflt, "nil")
    ELSE IF ~ParseFloat(in.line).ok
    THEN Retry(ErrLine(Quote(in.line), MsgFloat))
    ELSE Return(FloatVal(ParseFloat(in.line).m, ParseFloat(in.line).e),
                "nil")

\* Question.ReadBool's loop, with the reader's error taken for an input.
HandleBoolMut(c, in) ==
    IF in.line = <<>> THEN Return(c.dflt, in.err)
    ELSE IF ~atob(in.line, ExtraBoolString).ok
    THEN Retry(ErrLine(in.line, MsgBool))
    ELSE Return(BoolVal(atob(in.line, ExtraBoolString).v), "nil")

\* Question.ReadBool's loop
HandleBool(c, in) ==
    IF in.err # "nil" THEN Return(ZeroVal, in.err)
    ELSE IF in.line = <<>> THEN Return(c.dflt, "nil")
    ELSE IF ~atob(in.line, ExtraBoolString).ok
    THEN Retry(ErrLine(in.line, MsgBool))
    ELSE Return(BoolVal(atob(in.line, ExtraBoolString).v), "nil")

\* Question._baseReadChoice's loop: the answer is compared with the
\* elements of a, the caller's slice in which the default element has been
\* replaced by its highlighted form.
HandleChoice(c, in, a) ==
    IF in.err # "nil" THEN Return(ZeroVal, in.err)
    ELSE IF in.line = <<>> THEN Return(StrVal(c.chdef), "nil")
    ELSE IF \E i \in 1..Len(a) : in.line = a[i]
    THEN Return(StrVal(in.line), "nil")
    ELSE Retry(<<>>)

Handle(c, in, a) ==
    CASE c.base = "Read" -> HandleRead(c, in)
      [] c.base = "String" -> HandleString(c, in)
      [] c.base = "Int" -> HandleInt(c, in)
      [] c.base = "Float" -> HandleFloat(c, in)
      [] c.base = "Bool" -> HandleBool(c, in)
      [] c.base = "Choice" -> HandleChoice(c, in, a)

\* ----------------------------------------------- the Question's operations

NoQuestion == [valid |-> FALSE, trueString |-> <<>>, falseString |-> <<>>]

NoQCall ==
    [op |-> "none", base |-> "none", text |-> <<>>, def |-> DEFAULT_NO,
     dflt |-> ZeroVal, idx |-> 0, chdef |-> <<>>,
     line |-> [prompt |-> <<>>, ansiLen |-> 0]]

NoInput == [line |-> <<>>, err |-> "nil"]

NoRet == [val |-> ZeroVal, err |-> "nil"]

\* The texts of the questions: one that ends with '?' and one that does not.
Prompts == { <<"q", "?">>, <<"q">> }

StringDefaults == { <<"d">>, <<>> }

IntDefault == 7

\* 2.5
FloatDefault == [m |-> 25, e |-> 0 - 1]

OptR == <<"r">>

OptG == <<"g">>

OptB == <<"b">>

\* The list of options a caller passes to ReadChoice*.
Options == <<OptR, OptG, OptB>>

\* What line.Read() may return: a line (the empty one, two integers of
\* which "0" is a literal of strconv.ParseBool as well, a float, a word, a
\* boolean word, two of the options and an option with the ANSI codes of
\* the highlighting around it), or an error, with or without the text typed
\* until then.
Inputs ==
    { <<>>, <<"0">>, <<"1", "2">>, <<"3", ".", "5">>, <<"x">>, <<"y">>, OptR,
      OptG, setBold \o OptG \o setOff }

ReaderResults ==
    [line : Inputs, err : {"nil"}]
        \cup { [line |-> <<>>, err |-> "ErrCtrlD"],
               [line |-> <<"x">>, err |-> "EOF"] }

\* How many times the list a has had an element highlighted.
Highlights(a) ==
    LET j == Join(a, <<",">>)
    IN  Cardinality({ k \in 1..Len(j) :
                          /\ k + Len(setBold) - 1 <= Len(j)
                          /\ SubSeq(j, k, k + Len(setBold) - 1) = setBold })

QInit ==
    /\ \E c \in Configs :
          /\ QuestionTrueString = c.t
          /\ QuestionFalseString = c.f
          /\ ExtraBoolString = c.extra
    /\ q = NoQuestion
    /\ qpc = "idle"
    /\ qcall = NoQCall
    /\ opts = <<>>
    /\ lineIn = NoInput
    /\ qret = NoRet
    /\ output = <<>>
    /\ nread = 0

\* The Question's variables before anything is done with it, under the
\* default configuration.
QIdle ==
    /\ QuestionTrueString = <<"y">>
    /\ QuestionFalseString = <<"n">>
    /\ ExtraBoolString = NoExtra
    /\ q = NoQuestion
    /\ qpc = "idle"
    /\ qcall = NoQCall
    /\ opts = <<>>
    /\ lineIn = NoInput
    /\ qret = NoRet
    /\ output = <<>>
    /\ nread = 0

\* NewQuestion with the check of QuestionFalseString left out.
NewQuestionMut ==
    /\ qpc = "idle"
    /\ ~q.valid
    /\ IF ~atob(QuestionTrueString, ExtraBoolString).ok
       THEN /\ qpc' = "panic"
            /\ UNCHANGED q
       ELSE /\ q' = [valid |-> TRUE,
                     trueString |-> ToLower(QuestionTrueString),
                     falseString |-> ToLower(QuestionFalseString)]
            /\ UNCHANGED qpc
    /\ UNCHANGED <<QuestionTrueString, QuestionFalseString, ExtraBoolString,
                   qcall, opts, lineIn, qret, output, nread, hvars>>
NewQuestion ==
    /\ qpc = "idle"
    /\ ~q.valid
    /\ IF ~atob(QuestionTrueString, ExtraBoolString).ok
          \/ ~atob(QuestionFalseString, ExtraBoolString).ok
       THEN /\ qpc' = "panic"
            /\ UNCHANGED q
       ELSE /\ q' = [valid |-> TRUE,
                     trueString |-> ToLower(QuestionTrueString),
                     falseString |-> ToLower(QuestionFalseString)]
            /\ UNCHANGED qpc
    /\ UNCHANGED <<QuestionTrueString, QuestionFalseString, ExtraBoolString,
                   qcall, opts, lineIn, qret, output, nread, hvars>>

\* A Read* operation up to its first line.Read(): the Line is built and the
\* loop is entered.  a is the caller's list of options afterwards (<<>> for
\* the operations that take none).
Begin(op, base, text, display, def, dflt, idx, chdef, a) ==
    /\ qpc \in {"idle", "returned"}
    /\ q.valid
    /\ qcall' = [op |-> op, base |-> base, text |-> text, def |-> def,
                 dflt |-> dflt, idx |-> idx, chdef |-> chdef,
                 line |-> getLine(text, display, def)]
    /\ opts' = a
    /\ qpc' = "reading"
    /\ lineIn' = NoInput
    /\ qret' = NoRet
    /\ output' = <<>>
    /\ nread' = 0
    /\ UNCHANGED <<QuestionTrueString, QuestionFalseString, ExtraBoolString,
                   q, hvars>>

Read ==
    /\ q.valid
    /\ \E p \in Prompts :
           Begin("Read", "Read", p, <<>>, DEFAULT_NO, ZeroVal, 0, <<>>, <<>>)

BaseReadString(op, p, defaultAnswer, def) ==
    Begin(op, "String", p, defaultAnswer, def, StrVal(defaultAnswer), 0,
          <<>>, <<>>)

ReadString ==
    /\ q.valid
    /\ \E p \in Prompts : BaseReadString("ReadString", p, <<>>, DEFAULT_NO)

ReadStringDefault ==
    /\ q.valid
    /\ \E p \in Prompts, d \in StringDefaults :
           BaseReadString("ReadStringDefault", p, d, DEFAULT_SIMPLE)

BaseReadInt(op, p, defaultAnswer, def) ==
    Begin(op, "Int", p, Itoa(defaultAnswer), def, IntVal(defaultAnswer), 0,
          <<>>, <<>>)

ReadInt ==
    /\ q.valid
    /\ \E p \in Prompts : BaseReadInt("ReadInt", p, 0, DEFAULT_NO)

ReadIntDefault ==
    /\ q.valid
    /\ \E p \in Prompts :
           BaseReadInt("ReadIntDefault", p, IntDefault, DEFAULT_SIMPLE)

BaseReadFloat(op, p, m, e, def) ==
    Begin(op, "Float", p, FormatFloat(m, e), def, FloatVal(m, e), 0, <<>>,
          <<>>)

ReadFloat ==
    /\ q.valid
    /\ \E p \in Prompts : BaseReadFloat("ReadFloat", p, 0, 0, DEFAULT_NO)

ReadFloatDefault ==
    /\ q.valid
    /\ \E p \in Prompts :
           BaseReadFloat("ReadFloatDefault", p, FloatDefault.m, FloatDefault.e,
                         DEFAULT_SIMPLE)

ReadBool ==
    /\ q.valid
    /\ \E p \in Prompts, defaultAnswer \in BOOLEAN :
           LET options ==
                   IF defaultAnswer
                   THEN setBold \o q.trueString \o setOff \o <<"/">>
                           \o q.falseString
                   ELSE q.trueString \o <<"/">> \o setBold \o q.falseString
                           \o setOff
           IN  Begin("ReadBool", "Bool", p, options, DEFAULT_MULTIPLE,
                     BoolVal(defaultAnswer), 0, <<>>, <<>>)

\* The lists a caller may pass: a new one, or the slice it passed to the
\* ReadChoice* call before.
ChoiceArgs == {Options} \cup (IF opts = <<>> THEN {} ELSE {opts})

\* _baseReadChoice up to the loop: the default element of the caller's
\* slice is replaced by its highlighted form.
BaseReadChoice(op, p, a, defaultAnswer) ==
    LET def == a[defaultAnswer + 1]
        a2  == [a EXCEPT ![defaultAnswer + 1] = setBold \o def \o setOff]
    IN  Begin(op, "Choice", p, Join(a2, <<",">>), DEFAULT_MULTIPLE,
              StrVal(def), defaultAnswer, def, a2)

ReadChoice ==
    /\ q.valid
    /\ \E p \in Prompts, a \in ChoiceArgs :
           /\ Highlights(a) < MaxHighlights
           /\ BaseReadChoice("ReadChoice", p, a, 0)

ReadChoiceDefault ==
    /\ q.valid
    /\ \E p \in Prompts, a \in ChoiceArgs, defaultAnswer \in 0..Len(Options) :
           /\ Highlights(a) < MaxHighlights
           /\ IF defaultAnswer >= Len(a)
              THEN /\ qpc \in {"idle", "returned"}
                   /\ q.valid
                   /\ qpc' = "panic"
                   /\ UNCHANGED <<QuestionTrueString, QuestionFalseString,
                                  ExtraBoolString, q, qcall, opts, lineIn, qret,
                                  output, nread, hvars>>
              ELSE BaseReadChoice("ReadChoiceDefault", p, a, defaultAnswer)

\* line.Read() returns and the loop body of the operation runs.
LineRead ==
    /\ qpc = "reading"
    /\ nread < MaxReads
    /\ \E in \in ReaderResults :
          LET r == Handle(qcall, in, opts)
          IN  /\ lineIn' = in
              /\ nread' = nread + 1
              /\ output' = IF r.msg # <<>> THEN Append(output, r.msg)
                           ELSE output
              /\ IF r.done
                 THEN /\ qpc' = "returned"
                      /\ qret' = [val |-> r.val, err |-> r.err]
                 ELSE UNCHANGED <<qpc, qret>>
    /\ UNCHANGED <<QuestionTrueString, QuestionFalseString, ExtraBoolString,
                   q, qcall, opts, hvars>>

\* ------------------------------------------------------ the specifications

HistIdle ==
    /\ HistoryCap = MaxCap
    /\ disk = [exists |-> FALSE, data |-> <<>>]
    /\ h = NoHist
    /\ pc = "idle"
    /\ bufin = <<>>
    /\ call = NoCall
    /\ old = NoHist

Init == HistInit /\ QIdle

Next ==
    \/ NewHistory
    \/ NewHistorySize
    \/ Add
    \/ LoadBegin
    \/ LoadIter
    \/ SaveCall

Spec == Init /\ [][Next]_vars

InitQ == HistIdle /\ QInit

NextQ ==
    \/ NewQuestion
    \/ Read
    \/ ReadString
    \/ ReadStringDefault
    \/ ReadInt
    \/ ReadIntDefault
    \/ ReadFloat
    \/ ReadFloatDefault
    \/ ReadBool
    \/ ReadChoice
    \/ ReadChoiceDefault
    \/ LineRead

SpecQ == InitQ /\ [][NextQ]_vars

\* ------------------------------------------------------ the round trip
\* The session of the round trip: a History on a new file receives Add
\* calls and Save; a fresh History is then constructed on the same file and
\* loaded.  `old` keeps the first object.

InitRT == Init /\ ~disk.exists

RTConstruct == ~Constructed(old) /\ NewHistorySize

RTAdd == ~Constructed(old) /\ h.file.open /\ Add

RTSave == ~Constructed(old) /\ h.file.open /\ SaveCall

\* NewHistorySize(filename, h.Cap) once Save has returned nil.
RTFresh ==
    /\ pc = "idle"
    /\ ~Constructed(old)
    /\ Constructed(h) /\ h.Cap >= 1
    /\ call.op = "Save" /\ call.err = "nil"
    /\ old' = h
    /\ h' = NewObject(h.Cap)
    /\ call' = [op |-> "NewHistorySize", arg |-> <<>>, err |-> "nil"]
    /\ UNCHANGED <<HistoryCap, disk, pc, bufin, qvars>>

RTLoadBegin == Constructed(old) /\ call.op = "NewHistorySize" /\ LoadBegin

RTLoadIter == Constructed(old) /\ LoadIter

NextRT ==
    \/ RTConstruct
    \/ RTAdd
    \/ RTSave
    \/ RTFresh
    \/ RTLoadBegin
    \/ RTLoadIter

SpecRT == InitRT /\ [][NextRT]_vars

\* ------------------------------------------------- claims about the History

\* No byte has been read through the handle and Save has not closed it: the
\* ring holds what Add calls put there.
NeverLoaded(x) == Constructed(x) /\ x.file.open /\ x.file.pos = 0

\* C1: an Add on a History that only Add has filled leaves the ring, read
\* from the oldest occupied slot, holding the last Cap lines of (what it
\* held, then the added line) in that order, with Len the number of lines
\* held and Len = min(Len + 1, Cap); on a full ring the oldest line is the
\* one that goes and the others keep their order.
C1_AddKeepsMostRecent ==
    [][(call'.op = "Add" /\ call'.err = "nil" /\ NeverLoaded(h))
        => /\ Chrono(h'.rng)
                = LastN(h.Cap, Chrono(h.rng) \o <<call'.arg>>)
           /\ h'.Len = Len(Chrono(h'.rng))
           /\ h'.Len = Min(h.Len + 1, h.Cap)
           /\ h.Len = h.Cap
                => Chrono(h'.rng) = Tail(Chrono(h.rng)) \o <<call'.arg>>
           /\ h'.Cap = h.Cap /\ h'.file = h.file]_vars

\* C1's case: a full ring of two or more slots that has wrapped around.
C1_Witness ==
    /\ call.op = "Add" /\ NeverLoaded(h)
    /\ h.Cap >= 2 /\ h.Len = h.Cap /\ h.rng.cur = 2
    /\ Chrono(h.rng) = << <<"b">>, <<"a", " ">> >>

\* C2: in every state of a History of capacity >= 1, 0 <= Len <= Cap.
C2_LenWithinCap ==
    (Constructed(h) /\ h.Cap >= 1) => (0 <= h.Len /\ h.Len <= h.Cap)

RECURSIVE Verbatim(_)
\* The entries of es that do not start with a space and are not blank, each
\* as its own text followed by a newline.
Verbatim(es) ==
    IF es = <<>> THEN <<>>
    ELSE IF HasSpacePrefix(Head(es)) \/ TrimSpace(Head(es)) = <<>>
    THEN Verbatim(Tail(es))
    ELSE Head(es) \o <<NL>> \o Verbatim(Tail(es))

\* A Save of a History of capacity >= 1 that returns nil.
SaveReturnsNil == call'.op = "Save" /\ call'.err = "nil" /\ h.Cap >= 1

\* C3: the bytes a successful Save writes from the start of the file are the
\* ring's entries, oldest first, that do not start with a space and are not
\* blank, each as its own text followed by one newline.
C3_SaveWritesEntriesVerbatim ==
    [][SaveReturnsNil
        => SubSeq(disk'.data, 1, h'.file.pos) = Verbatim(Chrono(h.rng))]_vars

\* C5: after a successful Save the file holds the bytes Save wrote and
\* nothing else.
C5_SaveReplacesContent ==
    [][SaveReturnsNil => disk'.data = call'.arg]_vars

\* C6: every Save on an open History closes the handle, once.
C6_SaveAlwaysCloses ==
    [][(call'.op = "Save" /\ h.file.open /\ h.Cap >= 1)
        => (~h'.file.open /\ h'.file.closes = h.file.closes + 1)]_vars

\* C7: a read error other than end-of-file ends Load and is what Load
\* reports; nothing is inserted for it.
C7_ReadErrorEndsLoad ==
    [][(pc = "Load" /\ call'.err = "EBADF")
        => (pc' = "idle" /\ call'.op = "Load" /\ h'.rng = h.rng
            /\ h'.Len = h.Len)]_vars

\* C8: every constructed History has Cap > 0 and a ring of Cap slots.
C8_ConstructedCapPositive ==
    Constructed(h) => (h.Cap > 0 /\ Len(h.rng.slots) = h.Cap)

\* The lines of es are pairwise distinct, none starts with a space and none
\* is blank.
GoodLines(es) ==
    /\ \A i \in 1..Len(es) :
          ~HasSpacePrefix(es[i]) /\ TrimSpace(es[i]) # <<>>
    /\ \A i, j \in 1..Len(es) : es[i] = es[j] => i = j

\* C4: when the first History held n <= Cap distinct lines, none blank or
\* starting with a space, the fresh History holds the same lines in the
\* same order once its Load has returned, and its Len is n.
C4_RoundTrip ==
    (/\ Constructed(old) /\ call.op = "Load"
     /\ old.Len <= old.Cap /\ GoodLines(Chrono(old.rng)))
    => (Chrono(h.rng) = Chrono(old.rng) /\ h.Len = old.Len)

RECURSIVE Records(_)
\* The records of the bytes data: the text before each newline.
Records(data) ==
    IF IndexNL(data, 1) = 0 THEN <<>>
    ELSE <<SubSeq(data, 1, IndexNL(data, 1) - 1)>>
            \o Records(SubSeq(data, IndexNL(data, 1) + 1, Len(data)))

\* The ring of x holds the records of the file that have been taken from
\* the reader buf, and nothing else: the last Cap of them, oldest first.
\* This is so when Load starts on a new History and stays so until the
\* first Add (a line added before the Load would be one more entry).
LoadedFirst(x, data, buf) ==
    /\ x.file.open /\ x.Cap >= 1
    /\ Chrono(x.rng)
          = LastN(x.Cap, Records(SubSeq(data, 1, x.file.pos - Len(buf))))

RECURSIVE SavedLines(_)
\* The entries of es that Save writes, as Save writes them.
SavedLines(es) ==
    IF es = <<>> THEN <<>>
    ELSE IF HasSpacePrefix(Head(es)) \/ TrimSpace(Head(es)) = <<>>
    THEN SavedLines(Tail(es))
    ELSE <<TrimSpace(Head(es))>> \o SavedLines(Tail(es))

\* C15: a Load that runs on a History before any Add leaves in the ring the
\* last Cap records of the file, oldest first (step by step: the ring holds
\* the last Cap of the records read so far); every Add after it leaves the
\* last Cap of (what the ring held, then the added line), so that loaded
\* records are the first to go; and a Save writes the entries it keeps in
\* that order, loaded records before added lines.
C15_LoadedRecordsAreOldest ==
    [][/\ (pc = "Load" /\ LoadedFirst(h, disk.data, bufin))
          => LoadedFirst(h', disk'.data, bufin')
       /\ (call'.op = "Add" /\ call'.err = "nil" /\ h.file.open)
          => Chrono(h'.rng) = LastN(h.Cap, Chrono(h.rng) \o <<call'.arg>>)
       /\ (call'.op = "Save" /\ call'.err = "nil" /\ h.Cap >= 1)
          => Records(call'.arg) = SavedLines(Chrono(h.rng))]_vars

\* C15's case: a ring of two slots was loaded from a file of two records,
\* "a" and "b", and then "a " was added: "a" has gone, "b" comes first.
C15_Witness ==
    /\ call.op = "Add" /\ h.file.open
    /\ h.Cap = 2 /\ h.Len = 2
    /\ disk.data = <<"a", NL, "b", NL, "b">>
    /\ h.file.pos = Len(disk.data)
    /\ Chrono(h.rng) = << <<"b">>, <<"a", " ">> >>

\* ------------------------------------------------ claims about the Question

\* line.Read() has just returned an error to the call in progress.
ReaderFails == qpc = "reading" /\ nread' = nread + 1 /\ lineIn'.err # "nil"

\* C9: in every Read* operation an error of the LineReader ends the call at
\* once: the call returns that error with the zero value of its answer
\* type, writes no message for it, and asks for no further line.
C9_ReaderErrorEndsCall ==
    [][/\ ReaderFails
          => /\ qpc' = "returned"
             /\ qret' = [val |-> ZeroVal, err |-> lineIn'.err]
             /\ output' = output
       /\ (qpc = "returned" /\ qret.err # "nil")
          => ~(qcall' = qcall /\ nread' > nread)]_vars

\* C9's case: the error arrives as the third line of a call, after two
\* inputs that were rejected with a message.
C9_Witness ==
    /\ qpc = "returned" /\ qret.err = "ErrCtrlD" /\ qret.val = ZeroVal
    /\ nread = MaxReads /\ Len(output) = 2
    /\ qcall.op = "ReadBool"

\* The options as the caller passed them to the call in progress.
OriginalOptions == [opts EXCEPT ![qcall.idx + 1] = qcall.chdef]

\* C10: in ReadChoice and ReadChoiceDefault a non-empty input equal to one
\* of the option strings the caller passed, the one at the default index
\* included, is accepted and returned.
C10_ChoiceAcceptsOriginals ==
    [][(/\ qpc = "reading" /\ qcall.base = "Choice"
        /\ nread' = nread + 1 /\ lineIn'.err = "nil"
        /\ lineIn'.line # <<>>
        /\ \E i \in 1..Len(opts) : OriginalOptions[i] = lineIn'.line)
       => (qpc' = "returned"
           /\ qret' = [val |-> StrVal(lineIn'.line), err |-> "nil"])]_vars

\* No byte of s starts an ANSI code.
NoEscape(s) == \A i \in 1..Len(s) : s[i] # ESC

\* line.Read() has just returned the empty line to a ReadChoice* call.
ChoiceReadsEmpty ==
    /\ qpc = "reading" /\ qcall.base = "Choice"
    /\ nread' = nread + 1
    /\ lineIn' = NoInput

\* C11: in ReadChoice and ReadChoiceDefault an empty input, whatever the
\* number of unmatched inputs before it in the call, ends the call with the
\* option string at the default index, and that string holds no styling
\* escape byte.
C11_EmptyInputReturnsPlainDefault ==
    [][ChoiceReadsEmpty
        => /\ qpc' = "returned"
           /\ qret' = [val |-> StrVal(qcall.chdef), err |-> "nil"]
           /\ NoEscape(qret'.val.s)]_vars

\* line.Read() has just returned a line to a ReadIntDefault call.
IntDefaultReads ==
    /\ qpc = "reading" /\ qcall.op = "ReadIntDefault"
    /\ nread' = nread + 1
    /\ lineIn'.err = "nil"

\* C12: in ReadIntDefault(prompt, d) the empty line returns d, a line that
\* is a base-10 integer returns that integer ("12" returns 12), and any
\* other line writes the integer message once and leaves the call reading
\* the same prompt, at the first line of the call and at every later one;
\* once the call has returned it asks for no further line.
C12_ReadIntDefault ==
    [][/\ IntDefaultReads
          => IF lineIn'.line = <<>>
             THEN /\ qpc' = "returned"
                  /\ qret' = [val |-> IntVal(IntDefault), err |-> "nil"]
                  /\ output' = output
             ELSE IF Atoi(lineIn'.line).ok
             THEN /\ qpc' = "returned"
                  /\ qret' = [val |-> IntVal(Atoi(lineIn'.line).n),
                              err |-> "nil"]
                  /\ lineIn'.line = <<"1", "2">> => qret'.val.n = 12
                  /\ output' = output
             ELSE /\ qpc' = "reading"
                  /\ qcall' = qcall
                  /\ qret' = qret
                  /\ output'
                        = Append(output,
                                 ErrLine(Quote(lineIn'.line), MsgInteger))
       /\ (qpc = "returned" /\ qcall.op = "ReadIntDefault")
          => ~(qcall' = qcall /\ nread' > nread)]_vars

\* C12's case: two lines that are no integers, a word and a float, each
\* answered with the message, and then "12", which is returned.
C12_Witness ==
    /\ qcall.op = "ReadIntDefault" /\ qpc = "returned"
    /\ nread = 3
    /\ output = << ErrLine(Quote(<<"x">>), MsgInteger),
                   ErrLine(Quote(<<"3", ".", "5">>), MsgInteger) >>
    /\ lineIn = [line |-> <<"1", "2">>, err |-> "nil"]
    /\ qret = [val |-> IntVal(12), err |-> "nil"]

\* s starts with the bytes of p.
HasPrefix(s, p) == Len(s) >= Len(p) /\ SubSeq(s, 1, Len(p)) = p

\* s ends with a carriage return and a newline.
EndsWithCRLF(s) ==
    Len(s) >= 2 /\ s[Len(s) - 1] = "\r" /\ s[Len(s)] = "\n"

\* The line in does not pass the check of the operation of call c: a string
\* that reads as a number for ReadString*, no integer for ReadInt*, no
\* float for ReadFloat*, no boolean for ReadBool, none of the options
\* (neither as the caller wrote them nor as they are displayed) for
\* ReadChoice*.  The empty line that stands for the default or that Read and
\* ReadString skip is no failure.
ValidationFailure(c, in) ==
    CASE c.base = "String" ->
             in # <<>> /\ (Atoi(in).ok \/ ParseFloat(in).ok)
      [] c.base = "Int" ->
             ~Atoi(in).ok /\ ~(in = <<>> /\ c.def # DEFAULT_NO)
      [] c.base = "Float" ->
             ~ParseFloat(in).ok /\ ~(in = <<>> /\ c.def # DEFAULT_NO)
      [] c.base = "Bool" ->
             in # <<>> /\ ~atob(in, ExtraBoolString).ok
      [] c.base = "Choice" ->
             /\ in # <<>>
             /\ \A i \in 1..Len(opts) :
                   in # opts[i] /\ in # OriginalOptions[i]
      [] OTHER -> FALSE

\* C13: a line that fails the check of a Read* operation makes the call
\* write exactly one line to the output, which starts with the error prefix
\* and ends with carriage return and newline, and leaves the same call
\* reading the same prompt with nothing returned to the caller.
C13_ValidationFailureIsPrinted ==
    [][(/\ qpc = "reading" /\ nread' = nread + 1 /\ lineIn'.err = "nil"
        /\ ValidationFailure(qcall, lineIn'.line))
       => /\ Len(output') = Len(output) + 1
          /\ SubSeq(output', 1, Len(output)) = output
          /\ HasPrefix(output'[Len(output')], QuestionErrPrefix)
          /\ EndsWithCRLF(output'[Len(output')])
          /\ qpc' = "reading"
          /\ qcall' = qcall
          /\ qret' = qret]_vars

\* C13, amended: a line that fails the check of ReadString*, ReadInt*,
\* ReadFloat* or ReadBool makes the call write exactly one line to the
\* output, which starts with the error prefix and ends with carriage return
\* and newline; a line that is none of the options of ReadChoice* writes
\* nothing; in both cases the same call goes on reading the same prompt
\* and nothing is returned to the caller.
C13_FailureRetriesSamePrompt ==
    [][(/\ qpc = "reading" /\ nread' = nread + 1 /\ lineIn'.err = "nil"
        /\ ValidationFailure(qcall, lineIn'.line))
       => /\ IF qcall.base = "Choice"
             THEN output' = output
             ELSE /\ Len(output') = Len(output) + 1
                  /\ SubSeq(output', 1, Len(output)) = output
                  /\ HasPrefix(output'[Len(output')], QuestionErrPrefix)
                  /\ EndsWithCRLF(output'[Len(output')])
          /\ qpc' = "reading"
          /\ qcall' = qcall
          /\ qret' = qret]_vars

\* C13's case: ReadFloat has rejected the empty line and a word, with one
\* message each, and is reading its prompt for the third time.
C13_Witness ==
    /\ qcall.op = "ReadFloat" /\ qpc = "reading"
    /\ nread = 2
    /\ lineIn = [line |-> <<"x">>, err |-> "nil"]
    /\ output = << ErrLine(Quote(<<>>), MsgFloat),
                   ErrLine(Quote(<<"x">>), MsgFloat) >>
    /\ qret = NoRet

\* The literals of strconv.ParseBool and the y/yes/n/no forms, by value.
TrueLiterals ==
    { <<"1">>, <<"t">>, <<"T">>, <<"t", "r", "u", "e">>,
      <<"T", "R", "U", "E">>, <<"T", "r", "u", "e">>,
      <<"y">>, <<"Y">>, <<"y", "e", "s">>, <<"Y", "E", "S">>,
      <<"Y", "e", "s">> }

FalseLiterals ==
    { <<"0">>, <<"f">>, <<"F">>, <<"f", "a", "l", "s", "e">>,
      <<"F", "A", "L", "S", "E">>, <<"F", "a", "l", "s", "e">>,
      <<"n">>, <<"N">>, <<"n", "o">>, <<"N", "O">>, <<"N", "o">> }

BoolLiterals == TrueLiterals \cup FalseLiterals

\* s is a boolean for the coercion: a literal or a key of the table.
ParsesAsBoolean(s) == s \in BoolLiterals \/ s \in DOMAIN ExtraBoolString

\* The step is a call of NewQuestion.
NewQuestionCalled == ~q.valid /\ qpc = "idle" /\ (q' # q \/ qpc' # qpc)

\* C14: NewQuestion returns a Question exactly when QuestionTrueString and
\* QuestionFalseString are each a boolean for the coercion, and the
\* Question it returns holds the lower-cased form of each; when one of the
\* two is none, NewQuestion panics and there is no Question.
C14_NewQuestionChecksLiterals ==
    [][NewQuestionCalled
        => IF ParsesAsBoolean(QuestionTrueString)
              /\ ParsesAsBoolean(QuestionFalseString)
           THEN /\ q'.valid /\ qpc' = "idle"
                /\ q'.trueString = ToLower(QuestionTrueString)
                /\ q'.falseString = ToLower(QuestionFalseString)
                /\ QuestionTrueString = <<"Y", "E", "S">>
                      => q'.trueString = <<"y", "e", "s">>
                /\ QuestionFalseString = <<"N", "o">>
                      => q'.falseString = <<"n", "o">>
           ELSE qpc' = "panic" /\ ~q'.valid]_vars

\* C14's case: the Question of the upper-case literals "YES" and "No".
C14_Witness ==
    /\ QuestionTrueString = <<"Y", "E", "S">>
    /\ QuestionFalseString = <<"N", "o">>
    /\ q = [valid |-> TRUE, trueString |-> <<"y", "e", "s">>,
            falseString |-> <<"n", "o">>]

\* A line.Read() step of a Read, ReadString or ReadStringDefault call.
StringReads ==
    /\ qpc = "reading" /\ qcall.base \in {"Read", "String"}
    /\ nread' = nread + 1

\* C16: on the empty line Read and ReadString write nothing and go on
\* reading the same prompt, and they return only on a non-empty line or a
\* reader error; ReadStringDefault returns its default on the empty line,
\* also when the default is the empty string.
C16_EmptyInputFollowsFlag ==
    [][/\ (StringReads /\ lineIn' = NoInput)
          => IF qcall.op = "ReadStringDefault"
             THEN /\ qcall.def = DEFAULT_SIMPLE
                  /\ qpc' = "returned"
                  /\ qret' = [val |-> qcall.dflt, err |-> "nil"]
                  /\ output' = output
             ELSE /\ qcall.def = DEFAULT_NO
                  /\ qpc' = "reading"
                  /\ qcall' = qcall
                  /\ qret' = qret
                  /\ output' = output
       /\ (StringReads /\ qcall.op \in {"Read", "ReadString"}
              /\ qpc' = "returned")
          => (lineIn'.err # "nil" \/ lineIn'.line # <<>>)]_vars

\* C16's case: ReadStringDefault with the empty string for default has
\* returned it on the empty line.
C16_Witness ==
    /\ qcall.op = "ReadStringDefault" /\ qcall.dflt = StrVal(<<>>)
    /\ qpc = "returned" /\ nread = 1
    /\ lineIn = NoInput
    /\ qret = [val |-> StrVal(<<>>), err |-> "nil"]
    /\ output = <<>>

\* ReadBool's loop has just handed a non-empty line to atob.
BoolReads ==
    /\ qpc = "reading" /\ qcall.base = "Bool"
    /\ nread' = nread + 1
    /\ lineIn'.err = "nil" /\ lineIn'.line # <<>>

\* The call in progress returns the boolean v.
Answers(v) ==
    qpc' = "returned" /\ qret' = [val |-> BoolVal(v), err |-> "nil"]

\* C17: the coercion gives a literal of strconv.ParseBool or of the
\* y/yes/n/no set its own value whatever ExtraBoolString says of it; a
\* string that only ExtraBoolString knows gets the value of its entry; a
\* string that none of the three knows fails with the error of
\* strconv.ParseBool.
C17_CoercionOrder ==
    [][BoolReads
        => IF lineIn'.line \in TrueLiterals THEN Answers(TRUE)
           ELSE IF lineIn'.line \in FalseLiterals THEN Answers(FALSE)
           ELSE IF lineIn'.line \in DOMAIN ExtraBoolString
           THEN Answers(ExtraBoolString[lineIn'.line])
           ELSE /\ qpc' = "reading"
                /\ atob(lineIn'.line, ExtraBoolString)
                     = [ok |-> FALSE, v |-> FALSE, err |-> ErrSyntax]
                /\ ParseBool(lineIn'.line).err = ErrSyntax]_vars

\* C17's case: ExtraBoolString maps "0" to true, and ReadBool, asked with
\* the default true, has answered false to the line "0".
C17_Witness ==
    /\ ExtraBoolString = ExtraClash /\ ExtraBoolString[<<"0">>]
    /\ qcall.op = "ReadBool" /\ qcall.dflt = BoolVal(TRUE)
    /\ qpc = "returned"
    /\ lineIn = [line |-> <<"0">>, err |-> "nil"]
    /\ qret = [val |-> BoolVal(FALSE), err |-> "nil"]

\* s ends with the bytes of p.
HasSuffix(s, p) ==
    Len(s) >= Len(p) /\ SubSeq(s, Len(s) - Len(p) + 1, Len(s)) = p

\* C18: the prompt rendered for a Read* call ends with a single space when
\* the text the caller gave ends with '?', and with ": " when it does not,
\* whether a bracketed default follows the text or not.
C18_SeparatorFollowsPromptText ==
    qcall.op # "none"
    => IF EndsWithQuestionMark(qcall.text)
       THEN /\ HasSuffix(qcall.line.prompt, <<" ">>)
            /\ ~HasSuffix(qcall.line.prompt, <<":", " ">>)
       ELSE HasSuffix(qcall.line.prompt, <<":", " ">>)

\* C19: the true literal a Question holds coerces to true and its false
\* literal coerces to false, so that each of the two words ReadBool shows
\* is an answer it accepts, with the value it stands for.
C19_StoredLiteralsCoerce ==
    q.valid
    => /\ atob(q.trueString, ExtraBoolString).ok
       /\ atob(q.trueString, ExtraBoolString).v
       /\ atob(q.falseString, ExtraBoolString).ok
       /\ ~atob(q.falseString, ExtraBoolString).v

\* C20: when a ReadChoice* call has returned, by an answer, by the default
\* or by a reader error, the caller's list of options is what the caller
\* passed.
C20_ChoiceLeavesListUnchanged ==
    (qcall.base = "Choice" /\ qpc = "returned") => opts = OriginalOptions

====
